---- MODULE Spec2Model ----
(***************************************************************************)
(* tetra-pkgmgr: the content-addressed cache, the scoped temporary file,   *)
(* the download loop of main, the package identifier parser and the        *)
(* repository resolver, as state machines over a small file system.        *)
(*                                                                         *)
(* A string is a sequence of one-character strings, a path a sequence of   *)
(* segments (strings).                                                     *)
(***************************************************************************)
EXTENDS Naturals, Sequences, FiniteSets, TLC

\* Longest file content, and longest transfer, in bytes (one write each).
MaxLen == 1
\* Most sources a recipe declares.
MaxSources == 2

Procs == {1, 2}

Byte == {0, 1}
Contents == UNION {[1..n -> Byte] : n \in 0..MaxLen}

(***************************************************************************)
(* blake3, as far as the program relies on it: a function of the bytes     *)
(* with no collision among the contents of the model (Code is injective    *)
(* and the multiplier is odd), printed as fixed-width lowercase hex.       *)
(***************************************************************************)
RECURSIVE BinValue(_)
BinValue(c) ==
    IF c = <<>> THEN 0
    ELSE 2 * BinValue(SubSeq(c, 1, Len(c) - 1)) + c[Len(c)]

RECURSIVE Pow2(_)
Pow2(n) == IF n = 0 THEN 1 ELSE 2 * Pow2(n - 1)

Code(c) == Pow2(Len(c)) - 1 + BinValue(c)

Digest(c) == (Code(c) * 9) % 4096

HexDigits ==
    <<"0", "1", "2", "3", "4", "5", "6", "7",
      "8", "9", "a", "b", "c", "d", "e", "f">>

\* blake3::Hash::to_string
ToHexString(hash) ==
    << HexDigits[(hash \div 256) + 1],
       HexDigits[((hash \div 16) % 16) + 1],
       HexDigits[(hash % 16) + 1] >>

\* The checksums a recipe may declare: the first two share a fan-out prefix.
Hashes == {Digest(<<>>), Digest(<<0>>), Digest(<<1>>)}

(***************************************************************************)
(* Paths under the tetra root.                                             *)
(***************************************************************************)
CacheDir == << <<"cache">> >>
TempDir == << <<"tmp">> >>

\* A cache with no fan-out: the blob directly under the cache directory.
get_cache_path_flat(hash) == Append(CacheDir, ToHexString(hash))

\* A cache that names the blob by the first two digits alone.
get_cache_path_by_prefix(hash) ==
    Append(Append(CacheDir, SubSeq(ToHexString(hash), 1, 2)),
           SubSeq(ToHexString(hash), 1, 2))

\* Cache::get_cache_path
get_cache_path(hash) ==
    LET hash_str == ToHexString(hash)
        prefix == SubSeq(hash_str, 1, 2)
    IN  Append(Append(CacheDir, prefix), hash_str)

\* The fan-out directory cache_tmp_file creates.
cache_target_dir(hash) == Append(CacheDir, SubSeq(ToHexString(hash), 1, 2))

\* A temporary file made where the blob is to be.
TempPathInCache(hash) == get_cache_path(hash)

\* TempFile::new
TempPath(hash) == Append(TempDir, ToHexString(hash))

(***************************************************************************)
(* The file system: the directories and the bytes of every file.  An open  *)
(* handle refers to the file, not to its path, as on POSIX: it follows the *)
(* file through a rename, and once the file is unlinked (removed, or       *)
(* replaced by a rename onto its path) the handle is detached and what is  *)
(* written through it is seen by nobody.  No file has two links, so the    *)
(* path a handle's file has now identifies it.                             *)
(***************************************************************************)
IsDir(f, path) == path \in f.dirs
IsFile(f, path) == path \in DOMAIN f.files

Without(fn, x) == [y \in DOMAIN fn \ {x} |-> fn[y]]

CreateDirAll(f, path) ==
    [f EXCEPT !.dirs = @ \cup {SubSeq(path, 1, k) : k \in 1..Len(path)}]

\* TetraRoot::get_temp_dir: if !tmp_dir.is_dir() { create_dir_all(&tmp_dir)? }
get_temp_dir(f) == IF IsDir(f, TempDir) THEN f ELSE CreateDirAll(f, TempDir)

\* File::create: open for writing, create if missing, truncate if present.
FileCreate(f, path) == [f EXCEPT !.files = (path :> <<>>) @@ @]

\* A write that reports success and stores nothing.
WriteAtDropped(c, off, b) == c

\* One write of byte b at offset off (0-based) of content c; a gap left by
\* a truncation reads as zero bytes.
WriteAt(c, off, b) ==
    [k \in 1..(IF Len(c) > off + 1 THEN Len(c) ELSE off + 1) |->
        IF k = off + 1 THEN b
        ELSE IF k <= Len(c) THEN c[k] ELSE 0]

\* write_all through a handle: fd.at is <<>> once the file is unlinked.
WriteFile(f, fd, off, b) ==
    IF fd.at # <<>> /\ IsFile(f, fd.at)
    THEN [f EXCEPT !.files[fd.at] = WriteAt(@, off, b)]
    ELSE f

\* A remove_file that reports success and leaves the file.
RemoveFileKept(f, path) == f

\* std::fs::remove_file of an existing file
RemoveFile(f, path) == [f EXCEPT !.files = Without(@, path)]

\* A rename that copies: src stays where it was.
RenameCopied(f, src, dst) == [f EXCEPT !.files = (dst :> f.files[src]) @@ @]

\* std::fs::rename of an existing file src onto dst, replacing dst
Rename(f, src, dst) ==
    [f EXCEPT !.files = (dst :> f.files[src]) @@ Without(@, src)]

ReadFile(f, path) == f.files[path]

\* Cache::hash_file of an existing file
hash_file(f, path) == Digest(ReadFile(f, path))

Closed == [open |-> FALSE, at |-> <<>>]
NoEffect == [kind |-> "none", src |-> <<>>, dst |-> <<>>]
Unlinked(path) == [kind |-> "unlink", src |-> path, dst |-> <<>>]
Renamed(src, dst) == [kind |-> "rename", src |-> src, dst |-> dst]

\* What a remove_file or a rename does to an open handle.
Follow(fd, eff) ==
    IF ~fd.open \/ fd.at = <<>> THEN fd
    ELSE CASE eff.kind = "unlink" /\ fd.at = eff.src -> [fd EXCEPT !.at = <<>>]
           [] eff.kind = "rename" /\ fd.at = eff.dst -> [fd EXCEPT !.at = <<>>]
           [] eff.kind = "rename" /\ fd.at = eff.src -> [fd EXCEPT !.at = eff.dst]
           [] OTHER -> fd

(***************************************************************************)
(* PackageId::from_id_str (model/package_id.rs 11-47).                     *)
(***************************************************************************)
\* Longest identifier string parsed.
MaxIdLen == 5

Chars == {"a", "1", "@", ":", "#", "/"}
Strings == UNION {[1..n -> Chars] : n \in 0..MaxIdLen}

Latest == <<"l", "a", "t", "e", "s", "t">>
Default == <<"d", "e", "f", "a", "u", "l", "t">>

\* str::find: the first position of c in s, 0 when there is none
find(s, c) ==
    IF \E i \in 1..Len(s) : s[i] = c
    THEN CHOOSE i \in 1..Len(s) : s[i] = c /\ \A j \in 1..(i - 1) : s[j] # c
    ELSE 0

\* str::rfind: the last position of c in s, 0 when there is none
rfind(s, c) ==
    IF \E i \in 1..Len(s) : s[i] = c
    THEN CHOOSE i \in 1..Len(s) : s[i] = c /\ \A j \in (i + 1)..Len(s) : s[j] # c
    ELSE 0

Before(s, pos) == SubSeq(s, 1, pos - 1)
From(s, pos) == SubSeq(s, pos + 1, Len(s))

\* str::split: the segments between the separators; one (empty) segment
\* for the empty string
RECURSIVE split(_, _)
split(s, c) ==
    IF find(s, c) = 0 THEN <<s>>
    ELSE <<Before(s, find(s, c))>> \o split(From(s, find(s, c)), c)

\* let (rest, arch) = if let Some(pos) = s.rfind('#')   (lines 12-16)
ArchSplit(s) ==
    IF rfind(s, "#") # 0
    THEN [rest |-> Before(s, rfind(s, "#")), arch |-> <<From(s, rfind(s, "#"))>>]
    ELSE [rest |-> s, arch |-> <<>>]

\* let (repo, rest) = if let Some(pos) = rest.find('/')   (lines 18-22)
RepoSplit(s) ==
    IF find(s, "/") # 0
    THEN [repo |-> Before(s, find(s, "/")), rest |-> From(s, find(s, "/"))]
    ELSE [repo |-> Default, rest |-> s]

\* A separation of the name at whichever of ':' and '@' comes first.
NameSplitAtEither(s) ==
    IF find(s, ":") # 0 /\ (find(s, "@") = 0 \/ find(s, ":") < find(s, "@"))
    THEN [name |-> Before(s, find(s, ":")),
          rest |-> Latest \o <<":">> \o From(s, find(s, ":"))]
    ELSE IF find(s, "@") # 0
    THEN [name |-> Before(s, find(s, "@")), rest |-> From(s, find(s, "@"))]
    ELSE [name |-> s, rest |-> Latest]

\* let (name, rest) = if let Some(pos) = rest.find('@') ... else if
\* rest.find(':') ... else   (lines 24-34)
NameSplit(s) ==
    IF find(s, "@") # 0
    THEN [name |-> Before(s, find(s, "@")), rest |-> From(s, find(s, "@"))]
    ELSE IF find(s, ":") # 0
    THEN [name |-> Before(s, find(s, ":")),
          rest |-> Latest \o <<":">> \o From(s, find(s, ":"))]
    ELSE [name |-> s, rest |-> Latest]

\* parts.next().unwrap_or("latest"): split yields a first segment always
VersionOf(parts) == IF parts = <<>> THEN Latest ELSE Head(parts)

\* An Option<String> is <<>> (None) or <<s>> (Some(s)).
from_id_str(s) ==
    LET a == ArchSplit(s)
        r == RepoSplit(a.rest)
        n == NameSplit(r.rest)
        parts == split(n.rest, ":")
    IN  [repo |-> r.repo, name |-> n.name, version |-> VersionOf(parts),
         flavours |-> Tail(parts), arch |-> a.arch]

NoId == [repo |-> <<>>, name |-> <<>>, version |-> <<>>, flavours |-> <<>>,
         arch |-> <<>>]
IdleParse == [raw |-> <<>>, done |-> FALSE, id |-> NoId]

(***************************************************************************)
(* Repository::resolve_package_id (main.rs 273-343) on a packages tree.    *)
(***************************************************************************)
\* Most flavours of an identifier, and deepest flavour directory of a tree.
MaxFlavours == 2

PkgsDir == << <<"pkgs">> >>
RecipeYml == <<"recipe.yml">>

\* PathBuf::push / join of one component; an empty component names the
\* same directory
Push(path, seg) == IF seg = <<>> THEN path ELSE Append(path, seg)

RECURSIVE PushAll(_, _)
PushAll(path, segs) ==
    IF segs = <<>> THEN path ELSE PushAll(Push(path, Head(segs)), Tail(segs))

Ok(path) == [ok |-> TRUE, path |-> path, err |-> ""]
Err(msg) == [ok |-> FALSE, path |-> <<>>, err |-> msg]

\* A resolution that falls back to the default architecture's and the
\* architecture-less recipe when the requested architecture is not supplied.
resolve_arch_fallback(tree, recipe_path, arch, default_arch) ==
    LET path_with_arch == Push(Push(recipe_path, arch[1]), RecipeYml)
        path_with_default_arch == Push(Push(recipe_path, default_arch), RecipeYml)
        path_with_recipe == Push(recipe_path, RecipeYml)
    IN  IF arch # <<>> /\ IsFile(tree, path_with_arch)
        THEN Ok(path_with_arch)
        ELSE IF IsFile(tree, path_with_default_arch)
        THEN Ok(path_with_default_arch)
        ELSE IF IsFile(tree, path_with_recipe)
        THEN Ok(path_with_recipe)
        ELSE Err("Package recipe could not be found.")

\* lines 317-342: the architecture's recipe, the default architecture's,
\* the architecture-less one
resolve_arch(tree, recipe_path, arch, default_arch) ==
    LET path_with_arch == Push(Push(recipe_path, arch[1]), RecipeYml)
        path_with_default_arch == Push(Push(recipe_path, default_arch), RecipeYml)
        path_with_recipe == Push(recipe_path, RecipeYml)
    IN  IF arch # <<>>
        THEN IF IsFile(tree, path_with_arch)
             THEN Ok(path_with_arch)
             ELSE Err("Package architecure was set, but package does not supply it.")
        ELSE IF IsFile(tree, path_with_default_arch)
        THEN Ok(path_with_default_arch)
        ELSE IF IsFile(tree, path_with_recipe)
        THEN Ok(path_with_recipe)
        ELSE Err("Package recipe could not be found.")

\* lines 278-315: the package, version and flavour directories
PackageDir(id) == Push(Push(PkgsDir, <<Head(id.name)>>), id.name)
VersionDir(id) == Push(PackageDir(id), id.version)
FlavourDir(id) == PushAll(VersionDir(id), id.flavours)

\* A resolution that builds the whole path first and checks the directory
\* once, at the end.
resolve_package_id_checked_last(tree, id, default_arch) ==
    IF id.name = <<>> THEN Err("Package name was empty")
    ELSE IF ~IsDir(tree, FlavourDir(id))
    THEN Err("Package with name could not be found.")
    ELSE resolve_arch(tree, FlavourDir(id), id.arch, default_arch)

resolve_package_id(tree, id, default_arch) ==
    IF id.name = <<>> THEN Err("Package name was empty")
    ELSE IF ~IsDir(tree, PackageDir(id))
    THEN Err("Package with name could not be found.")
    ELSE IF ~IsDir(tree, VersionDir(id))
    THEN Err("Package version does not exist.")
    ELSE IF ~IsDir(tree, FlavourDir(id))
    THEN Err("Specified package flavour combination does not exist.")
    ELSE resolve_arch(tree, FlavourDir(id), id.arch, default_arch)

NoResult == [ok |-> FALSE, path |-> <<>>, err |-> "none"]
IdleRes == [tree |-> [dirs |-> {}, files |-> <<>>], id |-> NoId,
            default_arch |-> <<>>, done |-> FALSE, out |-> NoResult]

(***************************************************************************)
(* State.                                                                  *)
(*   env    : what runs (the cache operations called freely, or main),     *)
(*            whether file-system calls may fail, and the checksums in     *)
(*            play; fixed in a behaviour                                   *)
(*   recipe : the checksums of the recipe's sources, in declared order     *)
(*   fs     : the file system under the tetra root                         *)
(*   proc   : per invocation, its position and locals                      *)
(*   hist   : per invocation, what its calls saw and returned              *)
(*   parse  : the identifier parser's input and result                     *)
(*   res    : the resolver's repository tree, identifier and result        *)
(***************************************************************************)
VARIABLES env, recipe, fs, proc, hist, parse, res

vars == <<env, recipe, fs, proc, hist, parse, res>>

NoHash == 4095 + 1

Faults == IF env.faults THEN BOOLEAN ELSE {FALSE}

InitProc(pc) ==
    [pc |-> pc, idx |-> 1, h |-> NoHash, th |-> NoHash, hasTmp |-> FALSE,
     fd |-> Closed, off |-> 0, todo |-> <<>>, terr |-> FALSE,
     ret |-> "none", ra |-> "caller", dret |-> "none", cret |-> "none",
     after |-> "next"]

EmptyFs == [dirs |-> {CacheDir, TempDir}, files |-> <<>>]

\* lastop, faulted, pre: the operation that returned last, whether a
\* file-system call of it failed, and the file system when it was called.
\* outcome, failedAt, reported, sent: main's view of its fetches.
\* changed: whether a call of the invocation has changed the file system
\* since.  fetches: the sources main called download for, in time order.
\* run: which invocation in a row this is.
InitHist ==
    [lastop |-> "none", faulted |-> FALSE, pre |-> EmptyFs,
     outcome |-> "none", failedAt |-> 0, warned |-> FALSE,
     reported |-> {}, sent |-> <<>>, changed |-> FALSE, fetches |-> <<>>,
     run |-> 1]

\* Where an operation returns to: the free caller, or its place in main.
After(op) ==
    IF env.mode = "api" THEN "api"
    ELSE CASE op = "validate" -> "m_validated"
           [] op = "download" -> "m_downloaded"
           [] op = "insert" -> "m_cached"
           [] OTHER -> "scope_end"

StepWith(p, newp, newh, newfs, eff) ==
    /\ proc' = [q \in Procs |->
                  LET r == IF q = p THEN newp ELSE proc[q]
                  IN  [r EXCEPT !.fd = Follow(@, eff)]]
    /\ hist' = [hist EXCEPT ![p] = [newh EXCEPT !.changed = @ \/ newfs # fs]]
    /\ fs' = newfs
    /\ UNCHANGED <<env, recipe, parse, res>>

Step(p, newp, newh, newfs) == StepWith(p, newp, newh, newfs, NoEffect)

\* main remembers which blobs it was told are valid.
Told(hrec, h) ==
    IF env.mode = "api" THEN hrec ELSE [hrec EXCEPT !.reported = @ \cup {h}]

(***************************************************************************)
(* Cache::validate (main.rs 201-216), one step per file-system call.       *)
(***************************************************************************)
\* What validate's result means to cache_tmp_file (main.rs 229-233).
InsertResult(result) ==
    CASE result = "true" -> "ok"
      [] result = "false" -> "mismatch"
      [] OTHER -> "ioerr"

\* A validate that reports what is not a valid blob as an error.
ValidateReturnsStrict(r, result) ==
    IF r.ra = "insert"
    THEN [r EXCEPT !.ret = result, !.cret = InsertResult(result), !.pc = After("insert")]
    ELSE [r EXCEPT !.ret = IF result = "false" THEN "err" ELSE result,
                   !.pc = After("validate")]

ValidateReturns(r, result) ==
    IF r.ra = "insert"
    THEN [r EXCEPT !.ret = result, !.cret = InsertResult(result), !.pc = After("insert")]
    ELSE [r EXCEPT !.ret = result, !.pc = After("validate")]

HistValidateReturns(r, hrec, result, fault) ==
    LET done == [hrec EXCEPT !.lastop = IF r.ra = "insert" THEN "insert" ELSE "validate",
                             !.faulted = @ \/ fault]
    IN  IF result = "true" THEN Told(done, r.h) ELSE done

\* A validate that trusts the file name and never compares the digest.
MatchesUnchecked(f, path, hash) == TRUE

\* hash != computed_hash, negated (line 209)
Matches(f, path, hash) == hash_file(f, path) = hash

\* A validate that reports the mismatch and leaves the file.
PurgeSkipped(f, path) == f

\* Hash did not match, cached file should be removed (line 211)
Purge(f, path) == RemoveFile(f, path)

\* if !path.is_file() { return Ok(false); }
VIsFile(p) ==
    LET r == proc[p] IN
    /\ r.pc = "v_isfile"
    /\ IF ~IsFile(fs, get_cache_path(r.h))
       THEN Step(p, ValidateReturns(r, "false"),
                 HistValidateReturns(r, hist[p], "false", FALSE), fs)
       ELSE Step(p, [r EXCEPT !.pc = "v_hash"], hist[p], fs)

\* let computed_hash = Self::hash_file(&path)?;  if hash != computed_hash
VHash(p) ==
    LET r == proc[p]
        path == get_cache_path(r.h)
    IN
    /\ r.pc = "v_hash"
    /\ \E fault \in Faults :
         IF fault \/ ~IsFile(fs, path)
         THEN Step(p, ValidateReturns(r, "err"),
                   HistValidateReturns(r, hist[p], "err", fault), fs)
         ELSE IF Matches(fs, path, r.h)
         THEN Step(p, ValidateReturns(r, "true"),
                   HistValidateReturns(r, hist[p], "true", FALSE), fs)
         ELSE Step(p, [r EXCEPT !.pc = "v_remove"], hist[p], fs)

\* std::fs::remove_file(path)?;  return Ok(false);
VRemove(p) ==
    LET r == proc[p]
        path == get_cache_path(r.h)
    IN
    /\ r.pc = "v_remove"
    /\ \E fault \in Faults :
         IF fault \/ ~IsFile(fs, path)
         THEN Step(p, ValidateReturns(r, "err"),
                   HistValidateReturns(r, hist[p], "err", fault), fs)
         ELSE StepWith(p, ValidateReturns(r, "false"),
                       HistValidateReturns(r, hist[p], "false", FALSE),
                       Purge(fs, path), Unlinked(path))

(***************************************************************************)
(* Cache::cache_tmp_file (main.rs 218-234).                                *)
(***************************************************************************)
InsertFails(r) == [r EXCEPT !.cret = "ioerr", !.pc = After("insert")]

HistInsertFails(hrec, fault) ==
    [hrec EXCEPT !.lastop = "insert", !.faulted = @ \/ fault]

\* if !cache_target_dir.is_dir() { create_dir_all(&cache_target_dir)?; }
CMkdir(p) ==
    LET r == proc[p]
        dir == cache_target_dir(r.h)
    IN
    /\ r.pc = "c_mkdir"
    /\ IF IsDir(fs, dir)
       THEN Step(p, [r EXCEPT !.pc = "c_rename"], hist[p], fs)
       ELSE \E fault \in Faults :
              IF fault
              THEN Step(p, InsertFails(r), HistInsertFails(hist[p], TRUE), fs)
              ELSE Step(p, [r EXCEPT !.pc = "c_rename"], hist[p],
                        CreateDirAll(fs, dir))

\* std::fs::rename(&tmp_file.path, cache_path)?;  then self.validate(hash)
CRename(p) ==
    LET r == proc[p]
        src == TempPath(r.th)
        dst == get_cache_path(r.h)
    IN
    /\ r.pc = "c_rename"
    /\ \E fault \in Faults :
         IF fault \/ ~IsFile(fs, src) \/ ~IsDir(fs, cache_target_dir(r.h))
         THEN Step(p, InsertFails(r), HistInsertFails(hist[p], fault), fs)
         ELSE StepWith(p, [r EXCEPT !.pc = "v_isfile", !.ra = "insert"],
                       hist[p], Rename(fs, src, dst), Renamed(src, dst))

(***************************************************************************)
(* Downloader::download (main.rs 104-141): File::create, one write per     *)
(* byte the transport delivers, then perform's result.  The transport      *)
(* delivers any bytes and may end in an error.                             *)
(***************************************************************************)
\* let mut out_file = File::create(&self.tmp_file.path)?;
DlCreate(p) ==
    LET r == proc[p]
        path == TempPath(r.th)
    IN
    /\ r.pc = "dl_create"
    /\ \E fault \in Faults :
         IF fault
         THEN Step(p, [r EXCEPT !.dret = "err", !.pc = After("download")],
                   [hist[p] EXCEPT !.lastop = "download", !.faulted = TRUE], fs)
         ELSE \E bytes \in Contents, te \in BOOLEAN :
                Step(p, [r EXCEPT !.fd = [open |-> TRUE, at |-> path],
                                  !.off = 0, !.todo = bytes, !.terr = te,
                                  !.pc = "dl_write"],
                     [hist[p] EXCEPT !.sent = bytes], FileCreate(fs, path))

\* out_file.write_all(data)
DlWrite(p) ==
    LET r == proc[p] IN
    /\ r.pc = "dl_write"
    /\ r.todo # <<>>
    /\ Step(p, [r EXCEPT !.off = @ + 1, !.todo = Tail(@)], hist[p],
            WriteFile(fs, r.fd, r.off, Head(r.todo)))

\* transfer.perform()?;  out_file is closed when download returns
DlPerform(p) ==
    LET r == proc[p] IN
    /\ r.pc = "dl_write"
    /\ r.todo = <<>>
    /\ Step(p, [r EXCEPT !.dret = IF r.terr THEN "err" ELSE "ok",
                         !.fd = Closed, !.off = 0, !.terr = FALSE,
                         !.pc = After("download")],
            [hist[p] EXCEPT !.lastop = "download"], fs)

(***************************************************************************)
(* impl Drop for TempFile (main.rs 164-177).                               *)
(***************************************************************************)
DropReturns(r, removed) == [r EXCEPT !.hasTmp = FALSE, !.pc = After("drop")]

HistDropReturns(hrec, warn) == [hrec EXCEPT !.lastop = "drop", !.warned = warn]

\* if !self.path.is_file() { return; }
DIsFile(p) ==
    LET r == proc[p] IN
    /\ r.pc = "d_isfile"
    /\ IF ~IsFile(fs, TempPath(r.th))
       THEN Step(p, DropReturns(r, TRUE), HistDropReturns(hist[p], FALSE), fs)
       ELSE Step(p, [r EXCEPT !.pc = "d_remove"], hist[p], fs)

\* if let Err(e) = std::fs::remove_file(&self.path) { println!("WARN: ...") }
DRemove(p) ==
    LET r == proc[p]
        path == TempPath(r.th)
    IN
    /\ r.pc = "d_remove"
    /\ \E fault \in Faults :
         IF fault \/ ~IsFile(fs, path)
         THEN Step(p, DropReturns(r, FALSE),
                   HistDropReturns([hist[p] EXCEPT !.faulted = @ \/ fault], TRUE), fs)
         ELSE StepWith(p, DropReturns(r, TRUE), HistDropReturns(hist[p], FALSE),
                       RemoveFile(fs, path), Unlinked(path))

(***************************************************************************)
(* The cache and the scoped temporary file called freely by one caller:    *)
(* any sequence of validate, TempFile::new, download, cache_tmp_file and   *)
(* drop, from any cache contents.                                          *)
(***************************************************************************)
Called(hrec) ==
    [hrec EXCEPT !.lastop = "none", !.faulted = FALSE, !.warned = FALSE,
                 !.pre = fs, !.sent = <<>>, !.changed = FALSE]

Fresh(r) == [r EXCEPT !.h = NoHash, !.ret = "none", !.dret = "none", !.cret = "none"]

ApiValidate(p) ==
    LET r == proc[p] IN
    /\ r.pc = "api"
    /\ \E h \in env.hashes :
         Step(p, [Fresh(r) EXCEPT !.pc = "v_isfile", !.h = h, !.ra = "caller"],
              Called(hist[p]), fs)

ApiTempNew(p) ==
    LET r == proc[p] IN
    /\ r.pc = "api"
    /\ ~r.hasTmp
    /\ \E th \in env.hashes :
         Step(p, [Fresh(r) EXCEPT !.hasTmp = TRUE, !.th = th],
              [Called(hist[p]) EXCEPT !.pre = EmptyFs], fs)

ApiDownload(p) ==
    LET r == proc[p] IN
    /\ r.pc = "api"
    /\ r.hasTmp
    /\ Step(p, [Fresh(r) EXCEPT !.pc = "dl_create"], Called(hist[p]), fs)

ApiInsert(p) ==
    LET r == proc[p] IN
    /\ r.pc = "api"
    /\ r.hasTmp
    /\ \E h \in env.hashes :
         Step(p, [Fresh(r) EXCEPT !.pc = "c_mkdir", !.h = h], Called(hist[p]), fs)

ApiDrop(p) ==
    LET r == proc[p] IN
    /\ r.pc = "api"
    /\ r.hasTmp
    /\ Step(p, [Fresh(r) EXCEPT !.pc = "d_isfile"], Called(hist[p]), fs)

\* Any cache contents: each hash's path absent or holding any bytes, and
\* any further fan-out directories.
CacheWith(present, bytes, extraDirs) ==
    [dirs |-> {CacheDir, TempDir}
                \cup {cache_target_dir(h) : h \in present \cup extraDirs},
     files |-> [path \in {get_cache_path(h) : h \in present} |->
                  bytes[CHOOSE h \in present : get_cache_path(h) = path]]]

AnyCache(hs) ==
    \E present \in SUBSET hs, extraDirs \in SUBSET hs :
      \E bytes \in [present -> Contents] :
         fs = CacheWith(present, bytes, extraDirs)

\* The same, with or without the temporary directory, which get_temp_dir
\* creates when the first temporary file is made.
AnyRoot(hs) ==
    \E present \in SUBSET hs, extraDirs \in SUBSET hs, tmp \in SUBSET {TempDir} :
      \E bytes \in [present -> Contents] :
         fs = [CacheWith(present, bytes, extraDirs) EXCEPT !.dirs = (@ \ {TempDir}) \cup tmp]

\* The hashes in play: a pair sharing its fan-out directory, or one that
\* does not.
HashPairs == {{Digest(<<>>), Digest(<<0>>)}, {Digest(<<0>>), Digest(<<1>>)}}

InitCache ==
    /\ \E hs \in HashPairs :
         /\ env = [mode |-> "api", faults |-> TRUE, hashes |-> hs]
         /\ AnyCache(hs)
    /\ recipe = <<>>
    /\ proc = [p \in Procs |-> InitProc(IF p = 1 THEN "api" ELSE "off")]
    /\ hist = [p \in Procs |-> InitHist]
    /\ parse = IdleParse
    /\ res = IdleRes

NextCache ==
    \/ ApiValidate(1)
    \/ ApiTempNew(1)
    \/ ApiDownload(1)
    \/ ApiInsert(1)
    \/ ApiDrop(1)
    \/ VIsFile(1) \/ VHash(1) \/ VRemove(1)
    \/ CMkdir(1) \/ CRename(1)
    \/ DlCreate(1) \/ DlWrite(1) \/ DlPerform(1)
    \/ DIsFile(1) \/ DRemove(1)

SpecCache == InitCache /\ [][NextCache]_vars

(***************************************************************************)
(* main's loop over the recipe's sources (main.rs 476-509).                *)
(***************************************************************************)
\* for source in &recipe.sources { ... cache.validate(source.checksum()) }
MNext(p) ==
    LET r == proc[p] IN
    /\ r.pc = "m_next"
    /\ IF r.idx > Len(recipe)
       THEN Step(p, [r EXCEPT !.pc = "done"], hist[p], fs)
       ELSE Step(p, [Fresh(r) EXCEPT !.pc = "v_isfile", !.h = recipe[r.idx],
                                     !.ra = "caller"],
                 [Called(hist[p]) EXCEPT !.outcome = "none"], fs)

\* match cache.validate(..) { Err => return }; if !validated { match
\* Downloader::new(..) { Err => return }; downloader.download() }
MValidated(p) ==
    LET r == proc[p] IN
    /\ r.pc = "m_validated"
    /\ CASE r.ret = "err" ->
              Step(p, [r EXCEPT !.pc = "done"],
                   [hist[p] EXCEPT !.outcome = "validate_err"], fs)
         [] r.ret = "true" ->
              Step(p, [r EXCEPT !.pc = "m_next", !.idx = @ + 1],
                   [hist[p] EXCEPT !.outcome = "hit"], fs)
         [] OTHER ->
              LET started == [r EXCEPT !.pc = "dl_create", !.hasTmp = TRUE, !.th = r.h]
                  noted == [hist[p] EXCEPT !.fetches = Append(@, r.idx)]
              IN  IF IsDir(fs, TempDir)
                  THEN Step(p, started, noted, fs)
                  ELSE \E fault \in Faults :
                         IF fault
                         THEN Step(p, [r EXCEPT !.pc = "done"],
                                   [hist[p] EXCEPT !.outcome = "new_err",
                                                   !.faulted = TRUE], fs)
                         ELSE Step(p, started, noted, get_temp_dir(fs))

\* if let Err(e) = downloader.download() { return; }  downloader.send_to_cache
MDownloaded(p) ==
    LET r == proc[p] IN
    /\ r.pc = "m_downloaded"
    /\ IF r.dret = "err"
       THEN Step(p, [r EXCEPT !.pc = "d_isfile", !.after = "exit"],
                 [hist[p] EXCEPT !.outcome = "download_err",
                                 !.failedAt = IF @ = 0 THEN r.idx ELSE @,
                                 !.pre = fs], fs)
       ELSE Step(p, [r EXCEPT !.pc = "c_mkdir"], [hist[p] EXCEPT !.pre = fs], fs)

\* if let Err(e) = downloader.send_to_cache(&cache) { println!(..) };  and the
\* end of the block drops the downloader
MCached(p) ==
    LET r == proc[p] IN
    /\ r.pc = "m_cached"
    /\ Step(p, [r EXCEPT !.pc = "d_isfile", !.after = "next"],
            [hist[p] EXCEPT !.outcome = r.cret,
                            !.failedAt = IF @ = 0 /\ r.cret # "ok" THEN r.idx ELSE @,
                            !.pre = fs], fs)

\* A loop that takes up the same source again after the block.
ScopeEndSameSource(p) ==
    LET r == proc[p] IN
    /\ r.pc = "scope_end"
    /\ Step(p, [r EXCEPT !.pc = IF r.after = "exit" THEN "done" ELSE "m_next"],
            hist[p], fs)

\* After the drop: the early return leaves main, the end of the block goes
\* on with the next source.
ScopeEnd(p) ==
    LET r == proc[p] IN
    /\ r.pc = "scope_end"
    /\ IF r.after = "exit"
       THEN Step(p, [r EXCEPT !.pc = "done"], hist[p], fs)
       ELSE Step(p, [r EXCEPT !.pc = "m_next", !.idx = @ + 1, !.after = "next"],
                 hist[p], fs)

Recipes(hs) == UNION {[1..n -> hs] : n \in 0..MaxSources}

\* One invocation, any recipe, any cache contents, file-system calls that
\* may fail.
InitMain ==
    /\ \E hs \in HashPairs :
         /\ env = [mode |-> "main", faults |-> TRUE, hashes |-> hs]
         /\ AnyRoot(hs)
         /\ recipe \in Recipes(hs)
    /\ proc = [p \in Procs |-> InitProc(IF p = 1 THEN "m_next" ELSE "off")]
    /\ hist = [p \in Procs |-> InitHist]
    /\ parse = IdleParse
    /\ res = IdleRes

NextMain ==
    \/ MNext(1) \/ MValidated(1) \/ MDownloaded(1) \/ MCached(1) \/ ScopeEnd(1)
    \/ VIsFile(1) \/ VHash(1) \/ VRemove(1)
    \/ CMkdir(1) \/ CRename(1)
    \/ DlCreate(1) \/ DlWrite(1) \/ DlPerform(1)
    \/ DIsFile(1) \/ DRemove(1)

SpecMain == InitMain /\ [][NextMain]_vars

\* Most invocations run one after the other.
MaxRuns == 2

\* The program is run again on the same recipe once it has ended: a new
\* process over the disk the last one left.
Rerun(p) ==
    /\ proc[p].pc = "done"
    /\ hist[p].run < MaxRuns
    /\ Step(p, InitProc("m_next"),
            [InitHist EXCEPT !.reported = hist[p].reported, !.run = hist[p].run + 1],
            fs)

NextRuns == NextMain \/ Rerun(1)

SpecRuns == InitMain /\ [][NextRuns]_vars

\* Two invocations of the same recipe of one source, run concurrently with
\* no file-system failure.
InitConc ==
    /\ \E h \in Hashes :
         /\ env = [mode |-> "main", faults |-> FALSE, hashes |-> {h}]
         /\ AnyCache({h})
         /\ recipe = <<h>>
    /\ proc = [p \in Procs |-> InitProc("m_next")]
    /\ hist = [p \in Procs |-> InitHist]
    /\ parse = IdleParse
    /\ res = IdleRes

NextConc ==
    \E p \in Procs :
       \/ MNext(p) \/ MValidated(p) \/ MDownloaded(p) \/ MCached(p) \/ ScopeEnd(p)
       \/ VIsFile(p) \/ VHash(p) \/ VRemove(p)
       \/ CMkdir(p) \/ CRename(p)
       \/ DlCreate(p) \/ DlWrite(p) \/ DlPerform(p)
       \/ DIsFile(p) \/ DRemove(p)

SpecConc == InitConc /\ [][NextConc]_vars

(***************************************************************************)
(* The parser on every identifier string up to MaxIdLen characters.        *)
(***************************************************************************)
InitParse ==
    /\ env = [mode |-> "parse", faults |-> FALSE, hashes |-> {}]
    /\ recipe = <<>>
    /\ fs = EmptyFs
    /\ proc = [p \in Procs |-> InitProc("off")]
    /\ hist = [p \in Procs |-> InitHist]
    /\ \E raw \in Strings : parse = [IdleParse EXCEPT !.raw = raw]
    /\ res = IdleRes

Parse ==
    /\ ~parse.done
    /\ env.mode = "parse"
    /\ parse' = [parse EXCEPT !.done = TRUE, !.id = from_id_str(parse.raw)]
    /\ UNCHANGED <<env, recipe, fs, proc, hist, res>>

NextParse == Parse

SpecParse == InitParse /\ [][NextParse]_vars

(***************************************************************************)
(* The resolver on small packages trees: a chain of directories            *)
(* pkgs/a/a/1/<flavours...> cut at any depth, with any of the recipe       *)
(* files under its last directory when it is whole.                        *)
(***************************************************************************)
Names == {<<>>, <<"a">>, <<"b">>, <<"a", "b">>}
Versions == {<<"1">>, <<"2">>, <<>>}
FlavourNames == {<<"f">>, <<"g">>}
FlavourLists == UNION {[1..n -> FlavourNames] : n \in 0..MaxFlavours}
Archs == {<<"x">>, <<"y">>}

Ids ==
    [repo : {Default}, name : Names, version : Versions,
     flavours : FlavourLists, arch : {<<>>} \cup {<<a>> : a \in Archs \cup {<<>>}}]

TreeLeaf(fl) == PushAll(<< <<"pkgs">>, <<"a">>, <<"a">>, <<"1">> >>, fl)

\* where: {} or a subset of "" (no architecture) and the architectures
TreeWith(fl, depth, where) ==
    LET leaf == TreeLeaf(fl)
        recipes == {Push(Push(leaf, a), RecipeYml) : a \in where}
    IN  [dirs |-> {SubSeq(leaf, 1, k) : k \in 1..depth}
                    \cup {Push(leaf, a) : a \in where},
         files |-> [path \in recipes |-> <<>>]]

Trees ==
    UNION {{TreeWith(fl, depth, {}) : depth \in 1..Len(TreeLeaf(fl))} :
              fl \in FlavourLists}
      \cup {TreeWith(fl, Len(TreeLeaf(fl)), w) :
                fl \in FlavourLists, w \in SUBSET (Archs \cup {<<>>})}

InitResolve ==
    /\ env = [mode |-> "resolve", faults |-> FALSE, hashes |-> {}]
    /\ recipe = <<>>
    /\ fs = EmptyFs
    /\ proc = [p \in Procs |-> InitProc("off")]
    /\ hist = [p \in Procs |-> InitHist]
    /\ parse = IdleParse
    /\ \E tree \in Trees, id \in Ids, da \in Archs \cup {<<>>} :
         res = [IdleRes EXCEPT !.tree = tree, !.id = id, !.default_arch = da]

Resolve ==
    /\ ~res.done
    /\ env.mode = "resolve"
    /\ res' = [res EXCEPT !.done = TRUE,
                          !.out = resolve_package_id(res.tree, res.id, res.default_arch)]
    /\ UNCHANGED <<env, recipe, fs, proc, hist, parse>>

NextResolve == Resolve

SpecResolve == InitResolve /\ [][NextResolve]_vars

(***************************************************************************)
(* Properties of the cache and the scoped temporary file.                  *)
(***************************************************************************)
\* The operation of invocation p that returned last, to the free caller.
Returned(p, op) == proc[p].pc = "api" /\ hist[p].lastop = op

\* The path the specification gives a blob: cacheDir/hex(h)[0:2]/hex(h).
BlobPath(h) ==
    <<CacheDir[1], <<ToHexString(h)[1], ToHexString(h)[2]>>, ToHexString(h)>>

\* A file is at the path and its bytes hash to h.
HoldsBlob(f, path, h) == IsFile(f, path) /\ Digest(f.files[path]) = h

\* A file is at the path and its bytes do not hash to h.
HoldsCorrupt(f, path, h) == IsFile(f, path) /\ Digest(f.files[path]) # h

\* C1: in one invocation, from any cache contents and after any sequence of
\* validate and cache_tmp_file calls, validate(h) returns true only if a file
\* at path(h) hashes to h, and cache_tmp_file(t, h) returns Ok only if the
\* file at path(h) hashes to h afterwards.
C1_OnlyMatchingBlobsReportedValid ==
    \A p \in Procs :
       /\ Returned(p, "validate") /\ proc[p].ret = "true"
            => HoldsBlob(fs, BlobPath(proc[p].h), proc[p].h)
       /\ Returned(p, "insert") /\ proc[p].cret = "ok"
            => HoldsBlob(fs, BlobPath(proc[p].h), proc[p].h)

\* An insert returned Ok over a blob that did not match its name before.
C1_Witness ==
    \E p \in Procs :
       /\ Returned(p, "insert") /\ proc[p].cret = "ok"
       /\ HoldsCorrupt(hist[p].pre, BlobPath(proc[p].h), proc[p].h)

\* C4: validate(h) of a file at path(h) whose content does not hash to h
\* returns false, not an error, and leaves no file at path(h) (no
\* file-system call of the validate failing).
C4_CorruptEntryPurged ==
    \A p \in Procs :
       ( /\ Returned(p, "validate")
         /\ ~hist[p].faulted
         /\ HoldsCorrupt(hist[p].pre, BlobPath(proc[p].h), proc[p].h) )
       => /\ proc[p].ret = "false"
          /\ ~IsFile(fs, BlobPath(proc[p].h))

\* A validate of a corrupt entry has returned.
C4_Witness ==
    \E p \in Procs :
       /\ Returned(p, "validate")
       /\ ~hist[p].faulted
       /\ HoldsCorrupt(hist[p].pre, BlobPath(proc[p].h), proc[p].h)
       /\ proc[p].ret = "false"

\* The temporary file of invocation p held bytes hashing to h when
\* cache_tmp_file(t, h) was called, and no file-system call of it failed.
InsertedMatching(p) ==
    /\ Returned(p, "insert")
    /\ ~hist[p].faulted
    /\ HoldsBlob(hist[p].pre, TempPath(proc[p].th), proc[p].h)

\* C5: cache_tmp_file(t, h) of a temporary file hashing to h returns Ok, and
\* afterwards validate(h) holds, no file is at the temporary file's path and
\* the blob at cacheDir/hex(h)[0:2]/hex(h) has the temporary file's bytes,
\* whatever was at that path before and whether or not the fan-out
\* directory existed.
C5_InsertOfMatchingFile ==
    \A p \in Procs :
       InsertedMatching(p)
       => /\ proc[p].cret = "ok"
          /\ proc[p].ret = "true"
          /\ HoldsBlob(fs, BlobPath(proc[p].h), proc[p].h)
          /\ ~IsFile(fs, TempPath(proc[p].th))
          /\ fs.files[BlobPath(proc[p].h)]
               = hist[p].pre.files[TempPath(proc[p].th)]

\* Such an insert replaced other bytes stored at path(h).
C5_Witness ==
    \E p \in Procs :
       /\ InsertedMatching(p)
       /\ HoldsCorrupt(hist[p].pre, BlobPath(proc[p].h), proc[p].h)
       /\ proc[p].cret = "ok"

\* Such an insert created the fan-out directory.
C5_WitnessNewDirectory ==
    \E p \in Procs :
       /\ InsertedMatching(p)
       /\ ~IsDir(hist[p].pre, <<CacheDir[1], SubSeq(ToHexString(proc[p].h), 1, 2)>>)
       /\ proc[p].cret = "ok"

\* C6 as stated: when cache_tmp_file fails because its validate returned
\* false, the relocated blob is still at path(h) when it returns.
C6_BlobLeftInPlace ==
    \A p \in Procs :
       Returned(p, "insert") /\ proc[p].cret = "mismatch"
       => IsFile(fs, BlobPath(proc[p].h))

\* C6 as the code has it: when cache_tmp_file fails because its validate
\* returned false, that validate has removed the relocated blob, and no
\* file is at path(h) nor at the temporary file's path when it returns.
C6_BlobPurgedBeforeReturn ==
    \A p \in Procs :
       Returned(p, "insert") /\ proc[p].cret = "mismatch"
       => /\ proc[p].ret = "false"
          /\ ~IsFile(fs, BlobPath(proc[p].h))
          /\ ~IsFile(fs, TempPath(proc[p].th))

\* An insert of a file that does not hash to h returned the mismatch.
C6_Witness ==
    \E p \in Procs :
       /\ Returned(p, "insert") /\ proc[p].cret = "mismatch"
       /\ HoldsCorrupt(hist[p].pre, TempPath(proc[p].th), proc[p].h)

(***************************************************************************)
(* Properties of main's fetch loop.                                        *)
(***************************************************************************)
\* The scope owning the temporary file of invocation p has ended: the
\* downloader was dropped after the download or the insert returned.
ScopeEnded(p) == proc[p].pc = "scope_end"

\* The outcome of the fetch as the values returned to main give it.
FetchOutcome(r) == IF r.dret = "err" THEN "download_err" ELSE r.cret

\* C2: when the scope of a fetch of a source with checksum h has ended, on
\* whichever path (download and insert succeeded, the download failed, the
\* insert failed with an I/O error or a mismatch), no file is at
\* tmp/hex(h) unless the removal itself failed and was warned about; when
\* no file was at that path at the release, the release changed nothing
\* and warned about nothing; and the outcome of the fetch is the one
\* main had before the release, whether or not the release failed.
C2_ScratchFileReleased ==
    \A p \in Procs :
       ScopeEnded(p)
       => /\ hist[p].outcome \in {"ok", "download_err", "ioerr", "mismatch"}
          /\ ~hist[p].warned => ~IsFile(fs, <<TempDir[1], ToHexString(proc[p].th)>>)
          /\ ~IsFile(hist[p].pre, <<TempDir[1], ToHexString(proc[p].th)>>)
               => fs = hist[p].pre /\ ~hist[p].warned
          /\ hist[p].outcome = FetchOutcome(proc[p])
          /\ proc[p].after = IF hist[p].outcome = "download_err" THEN "exit" ELSE "next"

\* The scope ended after a failed download whose file the release removed.
C2_Witness ==
    \E p \in Procs :
       /\ ScopeEnded(p)
       /\ hist[p].outcome = "download_err"
       /\ IsFile(hist[p].pre, <<TempDir[1], ToHexString(proc[p].th)>>)
       /\ ~IsFile(fs, <<TempDir[1], ToHexString(proc[p].th)>>)

\* The scope ended after a successful insert: the release was a no-op.
C2_WitnessMovedAway ==
    \E p \in Procs :
       /\ ScopeEnded(p)
       /\ hist[p].outcome = "ok"
       /\ fs = hist[p].pre

\* The scope ended after an insert that failed before the rename, and the
\* release removed the file.
C2_WitnessInsertFailed ==
    \E p \in Procs :
       /\ ScopeEnded(p)
       /\ hist[p].outcome = "ioerr"
       /\ IsFile(hist[p].pre, <<TempDir[1], ToHexString(proc[p].th)>>)
       /\ ~IsFile(fs, <<TempDir[1], ToHexString(proc[p].th)>>)

\* The removal failed: the fetch keeps the outcome it had.
C2_WitnessReleaseFailed ==
    \E p \in Procs :
       /\ ScopeEnded(p)
       /\ hist[p].warned
       /\ hist[p].outcome = "download_err"
       /\ proc[p].after = "exit"

\* C3 as stated: once the download or the insert of source i has failed,
\* the invocation performs nothing for a source j > i: it is never inside
\* a validate, a download, an insert or a release for a later source.
C3_FetchErrorAborts ==
    \A p \in Procs :
       hist[p].failedAt # 0 /\ proc[p].idx > hist[p].failedAt
       => proc[p].pc \in {"m_next", "done"}

(***************************************************************************)
(* Properties of the identifier parser.                                    *)
(***************************************************************************)
\* The combined version-and-flavours string of the identifier parsed, split
\* on ':'.
VersionAndFlavours ==
    split(NameSplit(RepoSplit(ArchSplit(parse.raw).rest).rest).rest, ":")

\* C7 as stated: the first segment of the version-and-flavours string is
\* the version, "latest" when that segment is empty, and the later
\* segments, in order, are the flavours.
C7_EmptyVersionIsLatest ==
    parse.done
    => /\ parse.id.version = IF Head(VersionAndFlavours) = <<>>
                             THEN Latest ELSE Head(VersionAndFlavours)
       /\ parse.id.flavours = Tail(VersionAndFlavours)

\* Where character c stands in s.
Positions(s, c) == {i \in 1..Len(s) : s[i] = c}

FirstOf(S) == CHOOSE i \in S : \A j \in S : i <= j
LastOf(S) == CHOOSE i \in S : \A j \in S : j <= i

\* The pieces of s between the occurrences of c, in order.
Cut(s, c) ==
    LET P == Positions(s, c)
        n == Cardinality(P)
        edge(k) == IF k = 0 THEN 0
                   ELSE IF k = n + 1 THEN Len(s) + 1
                   ELSE CHOOSE i \in P : Cardinality({j \in P : j < i}) = k - 1
    IN  [k \in 1..(n + 1) |-> SubSeq(s, edge(k - 1) + 1, edge(k) - 1)]

\* The input without its architecture, and without its repository.
Unarched(s) ==
    IF Positions(s, "#") = {} THEN s ELSE SubSeq(s, 1, LastOf(Positions(s, "#")) - 1)

Unrepoed(s) ==
    IF Positions(Unarched(s), "/") = {} THEN Unarched(s)
    ELSE SubSeq(Unarched(s), FirstOf(Positions(Unarched(s), "/")) + 1, Len(Unarched(s)))

\* C14: the architecture is what follows the last '#' (unset with no '#'),
\* the repository what precedes the first '/' of the remainder ("default"
\* with no '/'); the name ends at the first '@' when there is one, and at
\* the first ':' only when there is no '@'; in that case the version is
\* "latest" and every segment after the name is a flavour, whatever it
\* looks like; with neither, the remainder is the name, the version
\* "latest" and there is no flavour.
C14_SeparatorPriority ==
    parse.done
    => LET s == parse.raw
           id == parse.id
           body == Unarched(s)
           rest == Unrepoed(s)
           ats == Positions(rest, "@")
           colons == Positions(rest, ":")
       IN  /\ id.arch = IF Positions(s, "#") = {} THEN <<>>
                        ELSE <<SubSeq(s, LastOf(Positions(s, "#")) + 1, Len(s))>>
           /\ id.repo = IF Positions(body, "/") = {} THEN Default
                        ELSE SubSeq(body, 1, FirstOf(Positions(body, "/")) - 1)
           /\ ats # {}
                => LET tail == Cut(SubSeq(rest, FirstOf(ats) + 1, Len(rest)), ":")
                   IN  /\ id.name = SubSeq(rest, 1, FirstOf(ats) - 1)
                       /\ id.flavours = Tail(tail)
                       /\ Head(tail) # <<>> => id.version = Head(tail)
           /\ ats = {} /\ colons # {}
                => /\ id.name = SubSeq(rest, 1, FirstOf(colons) - 1)
                   /\ id.version = Latest
                   /\ id.flavours = Cut(SubSeq(rest, FirstOf(colons) + 1, Len(rest)), ":")
           /\ ats = {} /\ colons = {}
                => id.name = rest /\ id.version = Latest /\ id.flavours = <<>>

\* With ':' and no '@', what looks like a version is a flavour.
C14_Witness ==
    /\ parse.done
    /\ Positions(parse.raw, "@") = {}
    /\ parse.id.name = <<"a">>
    /\ parse.id.version = Latest
    /\ parse.id.flavours = << <<"1">> >>

\* A ':' before the first '@' belongs to the name.
C14_WitnessColonInName ==
    /\ parse.done
    /\ parse.id.name = <<"a", ":", "1">>
    /\ parse.id.version = <<"1">>

\* Of two '#' the last one starts the architecture.
C14_WitnessLastHash ==
    /\ parse.done
    /\ Cardinality(Positions(parse.raw, "#")) = 2
    /\ parse.id.arch = << <<"a">> >>
    /\ parse.id.name # <<>>

(***************************************************************************)
(* Properties of the resolver.                                             *)
(***************************************************************************)
\* The components of a path, the empty ones left out: a/b//c is a/b/c.
Components(segs) == SelectSeq(segs, LAMBDA seg : seg # <<>>)

\* packagesRoot/firstChar(name)/name, then the version, then the flavours.
NamePath(id) == <<PkgsDir[1], <<id.name[1]>>, id.name>>
VersionPath(id) == NamePath(id) \o Components(<<id.version>>)
FlavourPath(id) == VersionPath(id) \o Components(id.flavours)

\* The error kind each message of resolve_package_id stands for.
KindOf(out) ==
    CASE out.ok -> "none"
      [] out.err \in {"Package name was empty",
                      "Package with name could not be found."} -> "PackageNotFound"
      [] out.err = "Package version does not exist." -> "VersionNotFound"
      [] out.err = "Specified package flavour combination does not exist."
           -> "FlavourCombinationNotFound"
      [] out.err = "Package architecure was set, but package does not supply it."
           -> "ArchitectureNotSupplied"
      [] out.err = "Package recipe could not be found." -> "RecipeNotFound"
      [] OTHER -> "unknown"

\* The resolution got as far as the flavour directory, which exists.
FlavourDirExists ==
    /\ res.done
    /\ res.id.name # <<>>
    /\ IsDir(res.tree, NamePath(res.id))
    /\ IsDir(res.tree, VersionPath(res.id))
    /\ IsDir(res.tree, FlavourPath(res.id))

\* C8: once the flavour directory exists: with the architecture set, the
\* result is <path>/<arch>/recipe.yml when that file exists and
\* ArchitectureNotSupplied otherwise, whatever other recipes the directory
\* holds; with the architecture unset, it is <path>/<defaultArch>/recipe.yml
\* when that exists, else <path>/recipe.yml when that exists, else
\* RecipeNotFound.
C8_ArchitectureResolution ==
    FlavourDirExists
    => LET path == FlavourPath(res.id)
           withArch == path \o Components(<<res.id.arch[1], RecipeYml>>)
           withDefault == path \o Components(<<res.default_arch, RecipeYml>>)
           plain == path \o <<RecipeYml>>
       IN  IF res.id.arch # <<>>
           THEN IF withArch \in DOMAIN res.tree.files
                THEN res.out.ok /\ res.out.path = withArch
                ELSE KindOf(res.out) = "ArchitectureNotSupplied"
           ELSE IF withDefault \in DOMAIN res.tree.files
           THEN res.out.ok /\ res.out.path = withDefault
           ELSE IF plain \in DOMAIN res.tree.files
           THEN res.out.ok /\ res.out.path = plain
           ELSE KindOf(res.out) = "RecipeNotFound"

\* An architecture the package does not supply was asked for, the default
\* architecture's and the architecture-less recipe both exist, and the
\* result is ArchitectureNotSupplied.
C8_Witness ==
    /\ FlavourDirExists
    /\ res.id.arch \in {<<a>> : a \in Archs}
    /\ res.default_arch \in Archs
    /\ (FlavourPath(res.id) \o <<res.id.arch[1], RecipeYml>>) \notin DOMAIN res.tree.files
    /\ (FlavourPath(res.id) \o <<res.default_arch, RecipeYml>>) \in DOMAIN res.tree.files
    /\ (FlavourPath(res.id) \o <<RecipeYml>>) \in DOMAIN res.tree.files
    /\ KindOf(res.out) = "ArchitectureNotSupplied"

\* With the architecture unset and no default architecture's recipe, the
\* architecture-less recipe is the result.
C8_WitnessArchless ==
    /\ FlavourDirExists
    /\ res.id.arch = <<>>
    /\ res.default_arch \in Archs
    /\ res.out.ok
    /\ res.out.path = FlavourPath(res.id) \o <<RecipeYml>>

\* C10: the directory misses are reported in a fixed order: PackageNotFound
\* when the name is empty or packagesRoot/firstChar(name)/name is not a
\* directory; otherwise VersionNotFound when appending the version does not
\* give a directory; otherwise FlavourCombinationNotFound when appending
\* the flavours in order does not give a directory, never for an empty
\* flavour list; otherwise none of the three.
C10_DirectoryMissesInOrder ==
    res.done
    => LET id == res.id
           kind == KindOf(res.out)
       IN  /\ IF id.name = <<>> \/ ~IsDir(res.tree, NamePath(id))
              THEN kind = "PackageNotFound"
              ELSE IF ~IsDir(res.tree, VersionPath(id))
              THEN kind = "VersionNotFound"
              ELSE IF ~IsDir(res.tree, FlavourPath(id))
              THEN kind = "FlavourCombinationNotFound"
              ELSE kind \in {"none", "ArchitectureNotSupplied", "RecipeNotFound"}
           /\ id.flavours = <<>> => kind # "FlavourCombinationNotFound"

\* A known package with an unknown version is reported as VersionNotFound.
C10_Witness ==
    /\ res.done
    /\ res.id.name # <<>>
    /\ IsDir(res.tree, NamePath(res.id))
    /\ ~IsDir(res.tree, VersionPath(res.id))
    /\ KindOf(res.out) = "VersionNotFound"

\* An unknown package is reported as PackageNotFound though a version and
\* flavours were given.
C10_WitnessUnknownPackage ==
    /\ res.done
    /\ res.id.name # <<>>
    /\ ~IsDir(res.tree, NamePath(res.id))
    /\ res.id.version # <<>>
    /\ res.id.flavours # <<>>
    /\ KindOf(res.out) = "PackageNotFound"

\* A flavour order the tree does not have is reported as
\* FlavourCombinationNotFound.
C10_WitnessFlavourOrder ==
    /\ res.done
    /\ res.id.name # <<>>
    /\ Len(res.id.flavours) = 2
    /\ res.id.flavours[1] # res.id.flavours[2]
    /\ IsDir(res.tree, VersionPath(res.id) \o <<res.id.flavours[2], res.id.flavours[1]>>)
    /\ KindOf(res.out) = "FlavourCombinationNotFound"

(***************************************************************************)
(* Properties of two concurrent invocations.                               *)
(***************************************************************************)
\* The download of invocation p returned Ok and its transport delivered
\* bytes hashing to the source's checksum, and yet its insert failed.
FailedOnGoodBytes(p) ==
    /\ proc[p].dret = "ok"
    /\ Digest(hist[p].sent) = recipe[1]
    /\ hist[p].outcome \in {"mismatch", "ioerr"}

\* C9: two concurrent invocations of the same source have the same
\* temporary file path and the same cache path, nothing keeps one from
\* stepping while the other is inside its fetch, and an invocation whose
\* transport delivered bytes hashing to the checksum fails with a
\* mismatch or an I/O error only when the other invocation has changed
\* the file system under it.
C9_FailureOnlyByInterference ==
    \A p \in Procs : \A q \in Procs \ {p} :
       /\ proc[p].hasTmp /\ proc[q].hasTmp
            => /\ <<TempDir[1], ToHexString(proc[p].th)>>
                    = <<TempDir[1], ToHexString(proc[q].th)>>
               /\ get_cache_path(proc[p].h) = get_cache_path(proc[q].h)
       /\ FailedOnGoodBytes(p) => hist[q].changed

\* An interleaving in which an invocation failed with a checksum mismatch
\* although both transports delivered, without error, bytes hashing to the
\* checksum.
C9_Witness ==
    \E p \in Procs : \E q \in Procs \ {p} :
       /\ FailedOnGoodBytes(p)
       /\ hist[p].outcome = "mismatch"
       /\ proc[q].dret = "ok"
       /\ Digest(hist[q].sent) = recipe[1]

\* An interleaving in which both invocations failed under the same
\* conditions.
C9_WitnessBothFail ==
    \A p \in Procs : FailedOnGoodBytes(p)

\* Both invocations hold the same temporary file open for writing.
C9_WitnessNoLocking ==
    /\ \A p \in Procs : proc[p].fd.open
    /\ proc[1].fd.at = proc[2].fd.at
    /\ \A p \in Procs : proc[p].todo # <<>>

(***************************************************************************)
(* Order of the steps of one invocation.                                   *)
(***************************************************************************)
InValidateOfSource(r) == r.pc \in {"v_isfile", "v_hash", "v_remove"} /\ r.ra = "caller"

InDownload(r) == r.pc \in {"dl_create", "dl_write", "m_downloaded"}

InInsert(r) ==
    \/ r.pc \in {"c_mkdir", "c_rename", "m_cached"}
    \/ r.pc \in {"v_isfile", "v_hash", "v_remove"} /\ r.ra = "insert"

\* The sources download was called for are in declared order, each once.
FetchedInOrderOnce(hrec) ==
    \A i \in 1..Len(hrec.fetches) :
       /\ hrec.fetches[i] \in 1..Len(recipe)
       /\ \A j \in 1..(i - 1) : hrec.fetches[j] < hrec.fetches[i]

\* Where the invocation stands.
StepsInOrder(p) ==
    LET r == proc[p]
        hrec == hist[p]
    IN  /\ FetchedInOrderOnce(hrec)
        /\ r.idx \in 1..(Len(recipe) + 1)
        /\ \A i \in 1..Len(hrec.fetches) : hrec.fetches[i] <= r.idx
        /\ InValidateOfSource(r)
             => r.h = recipe[r.idx] /\ r.idx \notin {hrec.fetches[i] : i \in 1..Len(hrec.fetches)}
        /\ InDownload(r) \/ InInsert(r)
             => /\ r.pc # "m_cached" => r.ret = "false"
                /\ hrec.fetches # <<>>
                /\ hrec.fetches[Len(hrec.fetches)] = r.idx
                /\ r.th = recipe[r.idx]
                /\ r.h = recipe[r.idx]
        /\ InInsert(r) => r.dret = "ok"

\* What a step of the invocation may do.
StepInOrder(p) ==
    LET r == proc[p]
        rn == proc'[p]
    IN  /\ rn.idx \in {r.idx, r.idx + 1}
        /\ rn.idx = r.idx + 1 => rn.pc = "m_next"
        /\ InValidateOfSource(rn) /\ ~InValidateOfSource(r) => r.pc = "m_next"
        /\ InDownload(rn) /\ ~InDownload(r)
             => r.pc = "m_validated" /\ r.ret = "false"
        /\ r.pc = "m_validated" /\ rn # r
             => CASE r.ret = "false" ->
                       \/ rn.pc = "dl_create"
                            /\ hist'[p].fetches = Append(hist[p].fetches, r.idx)
                       \/ rn.pc = "done" /\ hist'[p].outcome = "new_err"
                  [] r.ret = "true" ->
                       rn.pc = "m_next" /\ hist'[p].fetches = hist[p].fetches
                  [] OTHER -> rn.pc = "done" /\ hist'[p].fetches = hist[p].fetches
        /\ InInsert(rn) /\ ~InInsert(r)
             => r.pc = "m_downloaded" /\ r.dret = "ok"
        /\ r.pc # "m_validated" => hist'[p].fetches = hist[p].fetches

\* C11: within one invocation the sources are taken one at a time in
\* declared order; for each source validate(checksum) runs before any
\* download; download is called exactly when validate returned false (and
\* the temporary directory could be had); cache_tmp_file is called only
\* after download returned Ok; and no source is downloaded twice.
C11_SourcesInOrder ==
    /\ [](\A p \in Procs : StepsInOrder(p))
    /\ [][\A p \in Procs : StepInOrder(p)]_vars

\* The first source was a cache hit and the second is being inserted after
\* its download.
C11_Witness ==
    \E p \in Procs :
       /\ proc[p].pc = "c_rename"
       /\ proc[p].idx = 2
       /\ hist[p].fetches = <<2>>
       /\ recipe[1] \in hist[p].reported

\* Both sources were downloaded, in order.
C11_WitnessTwoFetches ==
    \E p \in Procs : hist[p].fetches = <<1, 2>> /\ proc[p].pc = "done"

(***************************************************************************)
(* Further properties of the cache.                                        *)
(***************************************************************************)
\* cache_tmp_file(t, h) of invocation p has returned, and the temporary
\* file held bytes not hashing to h when it was called.
InsertedMismatching(p) ==
    /\ Returned(p, "insert")
    /\ HoldsCorrupt(hist[p].pre, <<TempDir[1], ToHexString(proc[p].th)>>, proc[p].h)

\* C12: cache_tmp_file(t, h) of a temporary file whose bytes hash to some
\* h' # h never returns Ok; it returns the checksum mismatch, and no file
\* is at the temporary file's path afterwards (no file-system call of it
\* failing, when it returns that failure instead).
C12_InsertOfMismatchingFile ==
    \A p \in Procs :
       InsertedMismatching(p)
       => /\ proc[p].cret # "ok"
          /\ ~hist[p].faulted
               => /\ proc[p].cret = "mismatch"
                  /\ ~IsFile(fs, <<TempDir[1], ToHexString(proc[p].th)>>)

\* Such an insert returned the mismatch with no file-system failure, over a
\* cache that had no file at path(h).
C12_Witness ==
    \E p \in Procs :
       /\ InsertedMismatching(p)
       /\ ~hist[p].faulted
       /\ ~IsFile(hist[p].pre, BlobPath(proc[p].h))
       /\ proc[p].cret = "mismatch"

\* C13: validate(h) with no file at path(h) returns false, not an error,
\* and leaves the whole file system as it was: files and directories of
\* the cache, fan-out directories and the temporary directory.
C13_ValidateOfAbsentBlob ==
    \A p \in Procs :
       Returned(p, "validate") /\ BlobPath(proc[p].h) \notin DOMAIN hist[p].pre.files
       => /\ proc[p].ret = "false"
          /\ ~hist[p].faulted
          /\ fs = hist[p].pre

\* Such a validate returned with the fan-out directory present, another
\* blob in the cache and a temporary file on disk.
C13_Witness ==
    \E p \in Procs :
       /\ Returned(p, "validate")
       /\ BlobPath(proc[p].h) \notin DOMAIN hist[p].pre.files
       /\ <<CacheDir[1], SubSeq(ToHexString(proc[p].h), 1, 2)>> \in fs.dirs
       /\ \E h \in env.hashes \ {proc[p].h} : BlobPath(h) \in DOMAIN fs.files
       /\ \E h \in env.hashes : <<TempDir[1], ToHexString(h)>> \in DOMAIN fs.files
       /\ proc[p].ret = "false"

(***************************************************************************)
(* A fetch whose download fails.                                           *)
(***************************************************************************)
\* What the cache directory holds: its directories and its files.
UnderCache(path) == Len(path) >= 1 /\ path[1] = CacheDir[1]

CacheState(f) ==
    [dirs |-> {d \in f.dirs : UnderCache(d)},
     files |-> [path \in {q \in DOMAIN f.files : UnderCache(q)} |-> f.files[path]]]

\* main has seen the download of the fetch fail.
DownloadFailed(p) == hist[p].outcome = "download_err"

\* C15: a download that fails ends the fetch before cache_tmp_file is
\* called: from the making of the Downloader to the end of the invocation
\* no step changes anything under the cache directory (so what was
\* written never is at path(h), and the cache is as it was when the fetch
\* started, for h and for every other hash), the invocation only releases
\* the temporary file and ends, and after the release no file is at the
\* temporary path (unless the removal itself failed and was warned about).
C15_FailedDownloadLeavesCache ==
    /\ [](\A p \in Procs :
            DownloadFailed(p)
            => /\ proc[p].pc \in {"d_isfile", "d_remove", "scope_end", "done"}
               /\ proc[p].cret = "none"
               /\ proc[p].pc \in {"scope_end", "done"} /\ ~hist[p].warned
                    => <<TempDir[1], ToHexString(proc[p].th)>> \notin DOMAIN fs.files)
    /\ [][\A p \in Procs :
            InDownload(proc[p]) \/ DownloadFailed(p)
            => CacheState(fs') = CacheState(fs)]_vars

\* The transfer failed after bytes were written, the invocation has
\* ended, and the temporary file is gone.
C15_Witness ==
    \E p \in Procs :
       /\ DownloadFailed(p)
       /\ proc[p].pc = "done"
       /\ hist[p].sent # <<>>
       /\ ~hist[p].faulted
       /\ <<TempDir[1], ToHexString(proc[p].th)>> \notin DOMAIN fs.files
       /\ BlobPath(proc[p].th) \notin DOMAIN fs.files

(***************************************************************************)
(* The cache's keys.                                                       *)
(***************************************************************************)
\* Every digest value.
Keys == 0..4095

\* Two keys have the same path only when they are the same key.
PathsDistinct ==
    \A h1 \in Hashes : \A h2 \in Keys :
       (get_cache_path(h1) = get_cache_path(h2)) <=> (h1 = h2)

\* The path holds the same in both file systems: no file, or the same bytes.
SameAt(f, g, path) ==
    /\ path \in DOMAIN f.files <=> path \in DOMAIN g.files
    /\ path \in DOMAIN f.files => f.files[path] = g.files[path]

\* C16: the path of a key is the path of no other key, and validate(h) and
\* cache_tmp_file(t, h), whatever they return, leave what is stored at
\* path(h') for every h' # h as it was: not created, not changed, not
\* removed.
C16_ConfinedToOwnKey ==
    /\ PathsDistinct
    /\ \A p \in Procs :
          Returned(p, "validate") \/ Returned(p, "insert")
          => \A other \in env.hashes \ {proc[p].h} :
                SameAt(hist[p].pre, fs, BlobPath(other))

\* An insert for h stored its blob in the fan-out directory that holds
\* the blob of another key.
C16_Witness ==
    \E p \in Procs :
       /\ Returned(p, "insert") /\ proc[p].cret = "ok"
       /\ BlobPath(proc[p].h) \notin DOMAIN hist[p].pre.files
       /\ \E other \in env.hashes \ {proc[p].h} :
             /\ SubSeq(ToHexString(other), 1, 2) = SubSeq(ToHexString(proc[p].h), 1, 2)
             /\ BlobPath(other) \in DOMAIN fs.files

\* A validate for h removed the corrupt entry of h beside the blob of
\* another key.
C16_WitnessPurge ==
    \E p \in Procs :
       /\ Returned(p, "validate") /\ proc[p].ret = "false"
       /\ BlobPath(proc[p].h) \in DOMAIN hist[p].pre.files
       /\ \E other \in env.hashes \ {proc[p].h} :
             /\ SubSeq(ToHexString(other), 1, 2) = SubSeq(ToHexString(proc[p].h), 1, 2)
             /\ BlobPath(other) \in DOMAIN fs.files

(***************************************************************************)
(* Cache hits over a recipe and over invocations in a row.                 *)
(***************************************************************************)
\* C17: once validate(h) has returned true or cache_tmp_file(t, h) Ok, in
\* this invocation or an earlier one in a row, the blob at path(h) hashes
\* to h; a later validate(h) does not return false and leaves the disk as
\* it was (it returns true unless reading the file fails); and for such an
\* h no download is made, no insert, and no file is at tmp/hex(h).
C17_HitsAreStable ==
    \A p \in Procs :
       LET r == proc[p]
           hrec == hist[p]
       IN  /\ \A h \in hrec.reported :
                /\ HoldsBlob(fs, BlobPath(h), h)
                /\ <<TempDir[1], ToHexString(h)>> \notin DOMAIN fs.files
           /\ InValidateOfSource(r) /\ r.h \in hrec.reported
                => r.pc # "v_remove" /\ fs = hrec.pre
           /\ r.pc = "m_validated" /\ r.h \in hrec.reported
                => /\ r.ret \in {"true", "err"}
                   /\ r.ret = "err" => hrec.faulted
                   /\ fs = hrec.pre
           /\ r.pc = "m_validated" /\ r.ret = "false" => r.h \notin hrec.reported
           /\ InDownload(r) \/ (InInsert(r) /\ r.pc # "m_cached")
                => r.h \notin hrec.reported

\* The second source has the checksum of the first, which was downloaded:
\* its validate returned true and nothing changed on disk.
C17_Witness ==
    \E p \in Procs :
       /\ proc[p].pc = "m_validated"
       /\ proc[p].idx = 2
       /\ recipe[1] = recipe[2]
       /\ hist[p].fetches = <<1>>
       /\ proc[p].ret = "true"
       /\ fs = hist[p].pre

\* A second run over a recipe of two sources, both inserted or found by
\* the first, has ended without a download.
C17_WitnessSecondRun ==
    \E p \in Procs :
       /\ hist[p].run = 2
       /\ proc[p].pc = "done"
       /\ Len(recipe) = 2 /\ recipe[1] # recipe[2]
       /\ hist[p].reported = {recipe[1], recipe[2]}
       /\ hist[p].fetches = <<>>
       /\ hist[p].outcome = "hit"

(***************************************************************************)
(* A blob found valid, under two concurrent invocations.                   *)
(***************************************************************************)
\* C18 as stated: in every interleaving of two invocations fetching the
\* same source, whatever the transports deliver, once an invocation was
\* told the blob of h is valid (validate returned true or cache_tmp_file
\* Ok), the file at path(h) hashes to h from then on.
C18_ReportedBlobNeverAltered ==
    \A p \in Procs : \A h \in hist[p].reported :
       /\ BlobPath(h) \in DOMAIN fs.files
       /\ Digest(fs.files[BlobPath(h)]) = h

====
